---- MODULE Spec2Model ----
(***************************************************************************)
(* Model of portfolio_class.py: Stock (a per-symbol price resolver with a  *)
(* cache keyed by date string) and Portfolio (a ledger of holdings with    *)
(* valuation, profit and annualized return).                               *)
(*                                                                         *)
(* Prices are modelled as integers (whole dollars); floating-point         *)
(* rounding is outside the model.  Console output is not modelled.         *)
(***************************************************************************)
EXTENDS Integers, Sequences, FiniteSets, TLC

VARIABLES
    stocks,   \* Portfolio.stocks: the dict, as its items in insertion order
    cache,    \* Stock._price_cache of every Stock object
    last      \* the call that was made last: its arguments and its outcome

vars == <<stocks, cache, last>>

-----------------------------------------------------------------------------
(* Bounds of the model. *)

\* the largest share count a holding may reach
MaxHeld == 3
\* the largest number of entries of a provider series (resolver specification)
MaxSeriesLen == 2
\* the calendar of the model is the days 0..LastDay counted from BaseDate
LastDay == 7

-----------------------------------------------------------------------------
(* datetime: a day of the calendar and an hour of that day. *)

BaseDate == <<2022, 12, 26>>

IsLeap(y) == (y % 4 = 0 /\ y % 100 # 0) \/ y % 400 = 0

DaysInMonth(y, m) ==
    IF m = 2 THEN (IF IsLeap(y) THEN 29 ELSE 28)
    ELSE IF m \in {4, 6, 9, 11} THEN 30 ELSE 31

NextDay(ymd) ==
    LET y == ymd[1]
        m == ymd[2]
        d == ymd[3]
    IN  IF d < DaysInMonth(y, m) THEN <<y, m, d + 1>>
        ELSE IF m < 12 THEN <<y, m + 1, 1>>
        ELSE <<y + 1, 1, 1>>

RECURSIVE YMD(_)
YMD(n) == IF n = 0 THEN BaseDate ELSE NextDay(YMD(n - 1))

Datetime(day, hour) == [day |-> day, hour |-> hour]

\* datetime comparison, start_date > end_date
DatetimeGt(a, b) == a.day > b.day \/ (a.day = b.day /\ a.hour > b.hour)

\* (end_date - start_date).days: whole days of the difference, rounded down
DaysBetween(start, end) ==
    LET hours == (end.day * 24 + end.hour) - (start.day * 24 + start.hour)
    IN  IF hours >= 0 THEN hours \div 24 ELSE -((-hours + 23) \div 24)

-----------------------------------------------------------------------------
(* Date strings: 'YYYY-MM-DD' as the sequence of its characters, each      *)
(* character written as its code point minus the code point of '0'.        *)

Dash == 0 - 3

TwoDigits(n) == <<n \div 10, n % 10>>

FourDigits(n) == <<n \div 1000, (n \div 100) % 10, (n \div 10) % 10, n % 10>>

\* date.strftime('%Y-%m-%d')
strftime(date) ==
    LET ymd == YMD(date.day)
    IN  FourDigits(ymd[1]) \o <<Dash>> \o TwoDigits(ymd[2]) \o <<Dash>>
            \o TwoDigits(ymd[3])

\* the date string of day n of the calendar
DayStr(n) == strftime(Datetime(n, 0))

\* a <= b on strings: character by character, a proper prefix being smaller
RECURSIVE StrLeq(_, _)
StrLeq(a, b) ==
    IF a = <<>> THEN TRUE
    ELSE IF b = <<>> THEN FALSE
    ELSE IF Head(a) # Head(b) THEN Head(a) < Head(b)
    ELSE StrLeq(Tail(a), Tail(b))

\* sorted(keys) without reverse=True
RECURSIVE SortedAscending(_)
SortedAscending(keys) ==
    IF keys = {} THEN <<>>
    ELSE LET low == CHOOSE k \in keys : \A j \in keys : StrLeq(k, j)
         IN  <<low>> \o SortedAscending(keys \ {low})

\* sorted(keys, reverse=True)
RECURSIVE SortedReverse(_)
SortedReverse(keys) ==
    IF keys = {} THEN <<>>
    ELSE LET top == CHOOSE k \in keys : \A j \in keys : StrLeq(j, k)
         IN  <<top>> \o SortedReverse(keys \ {top})

-----------------------------------------------------------------------------
(* What the quote provider answers to one request.                         *)
(*   kind "network":  the request raises requests.RequestException         *)
(*   kind "error":    a JSON object without "Time Series (Daily)"          *)
(*   kind "badshape": a JSON value that is not an object (a list)          *)
(*   kind "series":   a JSON object with the time series                   *)
(* An entry of the series is one of                                        *)
(*   "ok":      {"4. close": "<number>"}                                   *)
(*   "nofield": an object without "4. close"                               *)
(*   "notnum":  {"4. close": "<text that is no number>"}                   *)
(*   "null":    {"4. close": null}                                         *)
(*   "notdict": a string instead of an object                              *)

None == <<>>

NoSeries == [k \in {} |-> 0]

Response(kind, series) == [kind |-> kind, series |-> series]

\* the place of a request that is never made
Unused == Response("unused", NoSeries)

Entry(kind, close) == [kind |-> kind, close |-> close]

\* the outcome of a call: the exception raised ("none" when it returns), the
\* value returned, the cache afterwards and the number of external requests
Outcome(exc, ret, c, fetched) ==
    [exc |-> exc, ret |-> ret, cache |-> c, fetched |-> fetched]

\* float(time_series[key]["4. close"]), and what it raises
CloseOf(entry) ==
    CASE entry.kind = "ok"      -> [exc |-> "none", close |-> entry.close]
      [] entry.kind = "nofield" -> [exc |-> "KeyError", close |-> 0]
      [] entry.kind = "notnum"  -> [exc |-> "ValueError", close |-> 0]
      [] entry.kind = "null"    -> [exc |-> "TypeError", close |-> 0]
      [] entry.kind = "notdict" -> [exc |-> "TypeError", close |-> 0]

\* Stock._find_closest_trading_day
RECURSIVE FirstNotAfter(_, _)
FirstNotAfter(all_dates, target_date_str) ==
    IF all_dates = <<>> THEN None
    ELSE IF StrLeq(Head(all_dates), target_date_str) THEN Head(all_dates)
    ELSE FirstNotAfter(Tail(all_dates), target_date_str)

\* a search that looks no further back than five days before the target
find_closest_bounded(target_date, time_series) ==
    FirstNotAfter(
        SortedReverse({k \in DOMAIN time_series :
                          \E n \in 0..5 : n <= target_date.day
                                              /\ k = DayStr(target_date.day - n)}),
        strftime(target_date))

find_closest_trading_day(target_date, time_series) ==
    FirstNotAfter(SortedReverse(DOMAIN time_series), strftime(target_date))

\* the except clauses of Stock.price: KeyError and ValueError leave as
\* ValueError, everything else leaves as it is
Handled(exc) == IF exc \in {"KeyError", "ValueError"} THEN "ValueError" ELSE exc

\* close_price = float(...); self._price_cache[date_str] = close_price; return
\* (r is what float(...) gave)
StoreClose(c, date_str, r) ==
    IF r.exc = "none"
    THEN Outcome("none", r.close, c @@ (date_str :> r.close), 1)
    ELSE Outcome(Handled(r.exc), 0, c, 1)

\* the key of the series whose close is read: the exact date if it is there,
\* else the closest previous trading day, else None
TradingDay(date, date_str, time_series) ==
    IF date_str \in DOMAIN time_series THEN date_str
    ELSE find_closest_trading_day(date, time_series)

\* a resolver that caches the close under the key it read
ReadSeriesByKey(c, date_str, time_series, key) ==
    IF key # None THEN StoreClose(c, key, CloseOf(time_series[key]))
    ELSE Outcome(Handled("ValueError"), 0, c, 1)

\* the body of Stock.price after the request, with the key that is read
ReadSeries(c, date_str, time_series, key) ==
    IF key # None THEN StoreClose(c, date_str, CloseOf(time_series[key]))
    ELSE Outcome(Handled("ValueError"), 0, c, 1)

\* a resolver without the cache check
ResolveUncached(c, date, date_str, resp) ==
    CASE resp.kind = "network"  -> Outcome("ValueError", 0, c, 1)
      [] resp.kind = "badshape" -> Outcome("AttributeError", 0, c, 1)
      [] resp.kind = "error"    -> Outcome(Handled("ValueError"), 0, c, 1)
      [] resp.kind = "series"   ->
           ReadSeries(c, date_str, resp.series,
                      TradingDay(date, date_str, resp.series))

\* Stock.price from its cache check on, date_str being the date as a string
Resolve(c, date, date_str, resp) ==
    IF date_str \in DOMAIN c THEN Outcome("none", c[date_str], c, 0)
    ELSE CASE resp.kind = "network"  -> Outcome("ValueError", 0, c, 1)
           [] resp.kind = "badshape" -> Outcome("AttributeError", 0, c, 1)
           [] resp.kind = "error"    -> Outcome(Handled("ValueError"), 0, c, 1)
           [] resp.kind = "series"   ->
                ReadSeries(c, date_str, resp.series,
                           TradingDay(date, date_str, resp.series))

\* Stock.price on the Stock whose cache is c, the provider answering resp
price(c, date, resp) == Resolve(c, date, strftime(date), resp)

-----------------------------------------------------------------------------
(* Stock objects.  a1 and a2 are two Stock objects with the same symbol.   *)

StockIds == {"a1", "a2", "m1"}

Symbols == {"AAPL", "MSFT"}

\* Stock.symbol
SymbolOf(stock) == IF stock = "m1" THEN "MSFT" ELSE "AAPL"

\* an argument of add_stock that is no Stock object
NotAStock == "not_a_stock"

-----------------------------------------------------------------------------
(* Portfolio.stocks, a dict from symbol to (Stock, quantity): the sequence *)
(* of its items in insertion order, no two with the same key.              *)

Item(symbol, stock, quantity) ==
    [symbol |-> symbol, stock |-> stock, quantity |-> quantity]

Keys(d) == {d[i].symbol : i \in 1..Len(d)}

IndexOf(d, k) == CHOOSE i \in 1..Len(d) : d[i].symbol = k

\* d[k]
DictGet(d, k) == d[IndexOf(d, k)]

\* d[k] = (stock, quantity): a held key keeps its place, a new key goes last
DictSet(d, k, stock, quantity) ==
    IF k \in Keys(d)
    THEN [d EXCEPT ![IndexOf(d, k)] = Item(k, stock, quantity)]
    ELSE Append(d, Item(k, stock, quantity))

\* del d[k]
DictDel(d, k) == SelectSeq(d, LAMBDA e : e.symbol # k)

LedgerOutcome(exc, d) == [exc |-> exc, stocks |-> d]

\* an add_stock that stores the new quantity over the held one
add_stock_overwrite(d, stock, quantity, is_int) ==
    IF stock \notin StockIds THEN LedgerOutcome("TypeError", d)
    ELSE IF ~is_int \/ quantity <= 0 THEN LedgerOutcome("ValueError", d)
    ELSE LedgerOutcome("none", DictSet(d, SymbolOf(stock), stock, quantity))

\* an add_stock that stores the Stock object it is given with the summed quantity
add_stock_replace(d, stock, quantity, is_int) ==
    IF stock \notin StockIds THEN LedgerOutcome("TypeError", d)
    ELSE IF ~is_int \/ quantity <= 0 THEN LedgerOutcome("ValueError", d)
    ELSE IF SymbolOf(stock) \in Keys(d)
         THEN LedgerOutcome("none",
                  DictSet(d, SymbolOf(stock), stock,
                          DictGet(d, SymbolOf(stock)).quantity + quantity))
         ELSE LedgerOutcome("none", DictSet(d, SymbolOf(stock), stock, quantity))

\* Portfolio.add_stock; is_int is isinstance(quantity, int)
add_stock(d, stock, quantity, is_int) ==
    IF stock \notin StockIds THEN LedgerOutcome("TypeError", d)
    ELSE IF ~is_int \/ quantity <= 0 THEN LedgerOutcome("ValueError", d)
    ELSE IF SymbolOf(stock) \in Keys(d)
         THEN LET existing == DictGet(d, SymbolOf(stock))
              IN  LedgerOutcome("none",
                      DictSet(d, SymbolOf(stock), existing.stock,
                              existing.quantity + quantity))
         ELSE LedgerOutcome("none", DictSet(d, SymbolOf(stock), stock, quantity))

\* a remove_stock that keeps an entry whose count reaches 0
remove_stock_keep_zero(d, symbol, quantity) ==
    IF symbol \notin Keys(d) THEN LedgerOutcome("KeyError", d)
    ELSE IF quantity > DictGet(d, symbol).quantity THEN LedgerOutcome("ValueError", d)
    ELSE LedgerOutcome("none",
             DictSet(d, symbol, DictGet(d, symbol).stock,
                     DictGet(d, symbol).quantity - quantity))

\* a remove_stock that ignores a symbol that is not held
remove_stock_silent(d, symbol, quantity) ==
    IF symbol \notin Keys(d) THEN LedgerOutcome("none", d)
    ELSE IF quantity > DictGet(d, symbol).quantity THEN LedgerOutcome("ValueError", d)
    ELSE IF quantity = DictGet(d, symbol).quantity
         THEN LedgerOutcome("none", DictDel(d, symbol))
         ELSE LedgerOutcome("none",
                  DictSet(d, symbol, DictGet(d, symbol).stock,
                          DictGet(d, symbol).quantity - quantity))

\* a remove_stock that clamps a removal of more than is held to all of it
remove_stock_clamped(d, symbol, quantity) ==
    IF symbol \notin Keys(d) THEN LedgerOutcome("KeyError", d)
    ELSE IF quantity >= DictGet(d, symbol).quantity
         THEN LedgerOutcome("none", DictDel(d, symbol))
         ELSE LedgerOutcome("none",
                  DictSet(d, symbol, DictGet(d, symbol).stock,
                          DictGet(d, symbol).quantity - quantity))

\* Portfolio.remove_stock
remove_stock(d, symbol, quantity) ==
    IF symbol \notin Keys(d) THEN LedgerOutcome("KeyError", d)
    ELSE LET existing_quantity == DictGet(d, symbol).quantity
         IN  IF quantity > existing_quantity THEN LedgerOutcome("ValueError", d)
             ELSE IF quantity = existing_quantity
                  THEN LedgerOutcome("none", DictDel(d, symbol))
                  ELSE LedgerOutcome("none",
                           DictSet(d, symbol, DictGet(d, symbol).stock,
                                   existing_quantity - quantity))

-----------------------------------------------------------------------------
(* Valuation.  resps[i] is what the provider answers if the i-th holding   *)
(* needs a request.  caches is the cache of every Stock object.            *)

ValueOutcome(exc, ret, caches, fetched, used) ==
    [exc |-> exc, ret |-> ret, cache |-> caches, fetched |-> fetched,
     used |-> used]

\* totals of a get_value that makes the request of a failed resolution twice
PricedRetried(d, i, acc, r) ==
    [ret |-> IF r.exc = "none" THEN acc.ret + r.ret * d[i].quantity ELSE acc.ret,
     fetched |-> acc.fetched + (IF r.exc = "none" THEN r.fetched ELSE 2 * r.fetched),
     used |-> IF r.fetched > 0 THEN acc.used \cup {i} ELSE acc.used]

\* the totals of Portfolio.get_value after the i-th item, r being what
\* stock.price gave for it
Priced(d, i, acc, r) ==
    [ret |-> IF r.exc = "none" THEN acc.ret + r.ret * d[i].quantity ELSE acc.ret,
     fetched |-> acc.fetched + r.fetched,
     used |-> IF r.fetched > 0 THEN acc.used \cup {i} ELSE acc.used]

\* the loop of Portfolio.get_value from the i-th item on (ValueLoop), and one
\* pass of it (ValueStep): a ValueError of Stock.price is caught and the holding
\* skipped, any other exception leaves get_value
RECURSIVE ValueLoop(_, _, _, _, _, _)
RECURSIVE ValueStep(_, _, _, _, _, _, _)
ValueStep(d, i, date, resps, caches, acc, r) ==
    IF r.exc \in {"none", "ValueError"}
    THEN ValueLoop(d, i + 1, date, resps,
                   [caches EXCEPT ![d[i].stock] = r.cache], Priced(d, i, acc, r))
    ELSE ValueOutcome(r.exc, 0, caches, Priced(d, i, acc, r).fetched,
                      Priced(d, i, acc, r).used)

ValueLoop(d, i, date, resps, caches, acc) ==
    IF i > Len(d)
    THEN ValueOutcome("none", acc.ret, caches, acc.fetched, acc.used)
    ELSE ValueStep(d, i, date, resps, caches, acc,
                   price(caches[d[i].stock], date, resps[i]))

\* Portfolio.get_value
get_value(d, date, resps, caches) ==
    ValueLoop(d, 1, date, resps, caches, [ret |-> 0, fetched |-> 0, used |-> {}])

\* the outcome of profit and annualized_return: the two valuations too
RangeOutcome(exc, ret, caches, fetched, used1, used2, start_value, end_value, days) ==
    [exc |-> exc, ret |-> ret, cache |-> caches, fetched |-> fetched,
     used1 |-> used1, used2 |-> used2,
     start_value |-> start_value, end_value |-> end_value, days |-> days]

\* an exception of a valuation leaves the call; s is the start valuation and e
\* the valuation that raised
Raised(s, e, fetched, used2, start_value) ==
    RangeOutcome(e.exc, 0, e.cache, fetched, s.used, used2, start_value, 0, 0)

\* a profit that subtracts the end valuation from the start valuation
ProfitOfReversed(s, e) ==
    IF e.exc # "none" THEN Raised(s, e, s.fetched + e.fetched, e.used, s.ret)
    ELSE RangeOutcome("none", s.ret - e.ret, e.cache, s.fetched + e.fetched,
                      s.used, e.used, s.ret, e.ret, 0)

\* Portfolio.profit after both valuations: profit_amount = end_value - start_value
ProfitOf(s, e) ==
    IF e.exc # "none" THEN Raised(s, e, s.fetched + e.fetched, e.used, s.ret)
    ELSE RangeOutcome("none", e.ret - s.ret, e.cache, s.fetched + e.fetched,
                      s.used, e.used, s.ret, e.ret, 0)

\* Portfolio.profit after the start valuation s
ProfitFrom(d, end_date, resps2, s) ==
    IF s.exc # "none" THEN Raised(s, s, s.fetched, {}, 0)
    ELSE ProfitOf(s, get_value(d, end_date, resps2, s.cache))

\* Portfolio.profit
profit(d, start_date, end_date, resps1, resps2, caches) ==
    IF DatetimeGt(start_date, end_date)
    THEN RangeOutcome("ValueError", 0, caches, 0, {}, {}, 0, 0, 0)
    ELSE ProfitFrom(d, end_date, resps2, get_value(d, start_date, resps1, caches))

\* Portfolio.annualized_return after both valuations.  The rate itself,
\* (end_value / start_value) ** (1 / (days_diff / 365.25)) - 1, is a real number
\* and is not computed: the outcome carries end_value, start_value and days_diff.
\* 1 / years_diff raises ZeroDivisionError when days_diff is 0.
AnnualizedOf(s, e, days_diff) ==
    IF e.exc # "none" THEN Raised(s, e, s.fetched + e.fetched, e.used, s.ret)
    ELSE RangeOutcome(IF days_diff = 0 THEN "ZeroDivisionError" ELSE "none", 0,
                      e.cache, s.fetched + e.fetched, s.used, e.used,
                      s.ret, e.ret, days_diff)

\* an annualized_return that goes on to the end valuation whatever the start value
AnnualizedFromUnchecked(d, start_date, end_date, resps2, s) ==
    IF s.exc # "none" THEN Raised(s, s, s.fetched, {}, 0)
    ELSE AnnualizedOf(s, get_value(d, end_date, resps2, s.cache),
                      DaysBetween(start_date, end_date))

\* Portfolio.annualized_return after the start valuation s
AnnualizedFrom(d, start_date, end_date, resps2, s) ==
    IF s.exc # "none" THEN Raised(s, s, s.fetched, {}, 0)
    ELSE IF s.ret <= 0
    THEN RangeOutcome("ValueError", 0, s.cache, s.fetched, s.used, {}, s.ret, 0, 0)
    ELSE AnnualizedOf(s, get_value(d, end_date, resps2, s.cache),
                      DaysBetween(start_date, end_date))

\* an annualized_return that accepts equal dates, as profit does
annualized_return_lenient(d, start_date, end_date, resps1, resps2, caches) ==
    IF DatetimeGt(start_date, end_date)
    THEN RangeOutcome("ValueError", 0, caches, 0, {}, {}, 0, 0, 0)
    ELSE AnnualizedFrom(d, start_date, end_date, resps2,
                        get_value(d, start_date, resps1, caches))

\* Portfolio.annualized_return
annualized_return(d, start_date, end_date, resps1, resps2, caches) ==
    IF ~DatetimeGt(end_date, start_date)
    THEN RangeOutcome("ValueError", 0, caches, 0, {}, {}, 0, 0, 0)
    ELSE AnnualizedFrom(d, start_date, end_date, resps2,
                        get_value(d, start_date, resps1, caches))

-----------------------------------------------------------------------------
(* Inputs of the model. *)

Prices == {150, 160}

\* the datetime arguments: two times of one day, and the day after it
Dates == {Datetime(LastDay - 1, 0), Datetime(LastDay - 1, 12), Datetime(LastDay, 0)}

AddQuantities == (0 - 1)..MaxHeld

RemoveQuantities == (0 - 1)..(MaxHeld + 1)

\* a series with no entry for day LastDay - 1 (its close is that of the day
\* before) and an entry for day LastDay
GoodSeries ==
    Response("series", (DayStr(LastDay - 2) :> Entry("ok", 150))
                           @@ (DayStr(LastDay) :> Entry("ok", 160)))

\* a series whose only entry has a null close
NullSeries == Response("series", DayStr(LastDay - 2) :> Entry("null", 0))

NetworkError == Response("network", NoSeries)

\* the provider's answers during valuations
Feeds == {NetworkError, GoodSeries, NullSeries}

Entries ==
    {Entry("ok", p) : p \in Prices}
        \cup {Entry(k, 0) : k \in {"nofield", "notnum", "null", "notdict"}}

\* the dates a series may hold: the first two days of the calendar, and the
\* requested days with the day before them
SeriesKeys == {DayStr(n) : n \in {0, 1, LastDay - 2, LastDay - 1, LastDay}}

AllSeries ==
    UNION {[ks -> Entries] :
              ks \in {S \in SUBSET SeriesKeys : Cardinality(S) <= MaxSeriesLen}}

\* the provider's answers to a direct Stock.price call
AllResponses ==
    {Response(k, NoSeries) : k \in {"network", "error", "badshape"}}
        \cup {Response("series", ts) : ts \in AllSeries}

-----------------------------------------------------------------------------
(* The caller: it makes one call at a time and takes its outcome (last)    *)
(* before it makes the next one.                                           *)

Blank ==
    [op |-> "idle", stock |-> "", symbol |-> "", quantity |-> 0, is_int |-> TRUE,
     start |-> Datetime(0, 0), end |-> Datetime(0, 0),
     resps1 |-> <<>>, resps2 |-> <<>>,
     exc |-> "none", ret |-> 0, fetched |-> 0,
     start_value |-> 0, end_value |-> 0, days |-> 0]

\* the answers that were asked for; the place of a request not made is Unused
Canon(resps, used) ==
    [i \in DOMAIN resps |-> IF i \in used THEN resps[i] ELSE Unused]

WithinBound(d) == \A i \in 1..Len(d) : d[i].quantity <= MaxHeld

Init ==
    /\ stocks = <<>>
    /\ cache = [s \in StockIds |-> NoSeries]
    /\ last = Blank

AddStock(stock, quantity, is_int) ==
    /\ last.op = "idle"
    /\ LET o == add_stock(stocks, stock, quantity, is_int)
       IN  /\ WithinBound(o.stocks)
           /\ stocks' = o.stocks
           /\ last' = [Blank EXCEPT !.op = "add_stock", !.stock = stock,
                                    !.quantity = quantity, !.is_int = is_int,
                                    !.exc = o.exc]
    /\ UNCHANGED cache

RemoveStock(symbol, quantity) ==
    /\ last.op = "idle"
    /\ LET o == remove_stock(stocks, symbol, quantity)
       IN  /\ WithinBound(o.stocks)
           /\ stocks' = o.stocks
           /\ last' = [Blank EXCEPT !.op = "remove_stock", !.symbol = symbol,
                                    !.quantity = quantity, !.exc = o.exc]
    /\ UNCHANGED cache

Price(stock, date, resp) ==
    /\ last.op = "idle"
    /\ LET o == price(cache[stock], date, resp)
       IN  /\ cache' = [cache EXCEPT ![stock] = o.cache]
           /\ last' = [Blank EXCEPT !.op = "price", !.stock = stock,
                                    !.start = date,
                                    !.resps1 = Canon(<<resp>>,
                                                     IF o.fetched > 0 THEN {1} ELSE {}),
                                    !.exc = o.exc, !.ret = o.ret,
                                    !.fetched = o.fetched]
    /\ UNCHANGED stocks

GetValue(date, resps) ==
    /\ last.op = "idle"
    /\ LET o == get_value(stocks, date, resps, cache)
       IN  /\ cache' = o.cache
           /\ last' = [Blank EXCEPT !.op = "get_value", !.start = date,
                                    !.resps1 = Canon(resps, o.used),
                                    !.exc = o.exc, !.ret = o.ret,
                                    !.fetched = o.fetched]
    /\ UNCHANGED stocks

RangeCall(op, o, start_date, end_date, resps1, resps2) ==
    /\ cache' = o.cache
    /\ last' = [Blank EXCEPT !.op = op, !.start = start_date, !.end = end_date,
                             !.resps1 = Canon(resps1, o.used1),
                             !.resps2 = Canon(resps2, o.used2),
                             !.exc = o.exc, !.ret = o.ret, !.fetched = o.fetched,
                             !.start_value = o.start_value,
                             !.end_value = o.end_value, !.days = o.days]
    /\ UNCHANGED stocks

Profit(start_date, end_date, resps1, resps2) ==
    /\ last.op = "idle"
    /\ RangeCall("profit",
                 profit(stocks, start_date, end_date, resps1, resps2, cache),
                 start_date, end_date, resps1, resps2)

AnnualizedReturn(start_date, end_date, resps1, resps2) ==
    /\ last.op = "idle"
    /\ RangeCall("annualized_return",
                 annualized_return(stocks, start_date, end_date, resps1, resps2, cache),
                 start_date, end_date, resps1, resps2)

\* the caller has taken the outcome and goes on
Return ==
    /\ last.op # "idle"
    /\ last' = Blank
    /\ UNCHANGED <<stocks, cache>>

\* one answer for each holding
Answers == [1..Len(stocks) -> Feeds]

\* the provider's answers during profit and annualized_return
RangeFeeds == {NetworkError, GoodSeries}

\* one answer for each holding of each valuation: any of RangeFeeds, or a null
\* close for every holding
RangeAnswers ==
    [1..Len(stocks) -> RangeFeeds] \cup {[i \in 1..Len(stocks) |-> NullSeries]}

\* the date ranges: equal dates, two times of one day, two days, and reversed
Ranges ==
    {<<Datetime(LastDay - 1, 0), Datetime(LastDay - 1, 0)>>,
     <<Datetime(LastDay - 1, 0), Datetime(LastDay - 1, 12)>>,
     <<Datetime(LastDay - 1, 0), Datetime(LastDay, 0)>>,
     <<Datetime(LastDay, 0), Datetime(LastDay - 1, 12)>>}

\* the quantity arguments of add_stock: integers, and one that is no integer
AddArguments == {<<q, TRUE>> : q \in AddQuantities} \cup {<<1, FALSE>>}

Next ==
    \/ \E stock \in StockIds \cup {NotAStock}, a \in AddArguments :
           AddStock(stock, a[1], a[2])
    \/ \E symbol \in Symbols, q \in RemoveQuantities : RemoveStock(symbol, q)
    \/ \E stock \in StockIds, date \in Dates, resp \in Feeds : Price(stock, date, resp)
    \/ \E date \in Dates, resps \in Answers : GetValue(date, resps)
    \/ \E range \in Ranges, resps1 \in RangeAnswers, resps2 \in RangeAnswers :
           Profit(range[1], range[2], resps1, resps2)
    \/ \E range \in Ranges, resps1 \in RangeAnswers, resps2 \in RangeAnswers :
           AnnualizedReturn(range[1], range[2], resps1, resps2)
    \/ Return

Spec == Init /\ [][Next]_vars

\* the resolver alone: direct Stock.price calls on one Stock object, the provider
\* answering anything
NextResolver ==
    \/ \E date \in Dates, resp \in AllResponses : Price("a1", date, resp)
    \/ Return

SpecResolver == Init /\ [][NextResolver]_vars

-----------------------------------------------------------------------------
(* Properties.  A step of the caller that makes the call op is one from    *)
(* last.op = "idle" to last'.op = op; the unprimed variables are the state *)
(* before the call and the primed ones the state after it.                 *)

CallStep(op) == last.op = "idle" /\ last'.op = op

\* the number of items of the ledger with the key symbol
EntriesOf(d, symbol) == Cardinality({i \in 1..Len(d) : d[i].symbol = symbol})

\* the held quantity of symbol, 0 when it is not held
Held(d, symbol) == IF symbol \in Keys(d) THEN DictGet(d, symbol).quantity ELSE 0

\* C1: add_stock with a Stock and a positive integer quantity q succeeds and leaves
\* exactly one entry for the symbol, whose quantity is the quantity held before
\* (0 if the symbol was not held) plus q; so add_stock(stock, q1) on a ledger
\* without the symbol and then add_stock(stock, q2) leave one entry with q1 + q2.
C1_AddSums ==
    [][CallStep("add_stock")
          /\ last'.stock \in StockIds /\ last'.is_int /\ last'.quantity > 0
       => /\ last'.exc = "none"
          /\ EntriesOf(stocks', SymbolOf(last'.stock)) = 1
          /\ Held(stocks', SymbolOf(last'.stock))
                 = Held(stocks, SymbolOf(last'.stock)) + last'.quantity
          /\ \A k \in Symbols \ {SymbolOf(last'.stock)} :
                 EntriesOf(stocks', k) = EntriesOf(stocks, k)]_vars

\* a second add of a held symbol has summed into its entry
C1_Witness ==
    /\ last.op = "add_stock" /\ last.exc = "none"
    /\ Held(stocks, SymbolOf(last.stock)) > last.quantity
    /\ Len(stocks) = 2

\* C2: every entry of the ledger has a share count greater than 0, whatever
\* add_stock and remove_stock calls were made (zero and negative quantities too).
C2_PositiveCounts == \A i \in 1..Len(stocks) : stocks[i].quantity > 0

\* a removal of all the shares of a holding has deleted its entry, another
\* entry staying
C2_Witness ==
    /\ last.op = "remove_stock" /\ last.exc = "none" /\ last.quantity > 0
    /\ last.symbol \notin Keys(stocks)
    /\ Len(stocks) = 1

\* C3: remove_stock of the whole held quantity deletes the symbol; remove_stock of
\* a symbol that is not held raises KeyError and leaves the ledger as it was; and
\* a symbol that is not held becomes held by a successful add_stock only.
C3_RemoveAllThenUnknown ==
    [][/\ CallStep("remove_stock") /\ last'.symbol \in Keys(stocks)
              /\ last'.quantity = Held(stocks, last'.symbol)
          => last'.exc = "none" /\ last'.symbol \notin Keys(stocks')
       /\ CallStep("remove_stock") /\ last'.symbol \notin Keys(stocks)
          => last'.exc = "KeyError" /\ stocks' = stocks
       /\ \A k \in Symbols :
              k \notin Keys(stocks) /\ k \in Keys(stocks')
              => CallStep("add_stock") /\ last'.exc = "none"
                     /\ SymbolOf(last'.stock) = k]_vars

\* a removal from a symbol that is not held has failed, another symbol being held
C3_Witness ==
    /\ last.op = "remove_stock" /\ last.exc = "KeyError"
    /\ last.symbol \notin Keys(stocks)
    /\ Len(stocks) = 1

\* C4: remove_stock of more than the held quantity of a held symbol raises
\* ValueError and leaves the whole ledger as it was.
C4_RemoveTooMany ==
    [][CallStep("remove_stock") /\ last'.symbol \in Keys(stocks)
          /\ last'.quantity > Held(stocks, last'.symbol)
       => last'.exc = "ValueError" /\ stocks' = stocks]_vars

\* a removal of more than is held has failed on a ledger of two holdings
C4_Witness ==
    /\ last.op = "remove_stock" /\ last.exc = "ValueError"
    /\ last.quantity > Held(stocks, last.symbol)
    /\ Len(stocks) = 2

\* C5: a successful remove_stock of an integer q smaller than the held quantity h
\* leaves the entry with h - q shares, which is fewer than h.
C5_RemoveDecrements ==
    [][CallStep("remove_stock") /\ last'.symbol \in Keys(stocks)
          /\ last'.quantity < Held(stocks, last'.symbol) /\ last'.exc = "none"
       => /\ last'.symbol \in Keys(stocks')
          /\ Held(stocks', last'.symbol)
                 = Held(stocks, last'.symbol) - last'.quantity
          /\ Held(stocks', last'.symbol) < Held(stocks, last'.symbol)]_vars

\* the resolution of the i-th holding succeeds: its price is cached, or the
\* provider's answer yields one
Resolves(d, i, date, resps, caches) ==
    \/ strftime(date) \in DOMAIN caches[d[i].stock]
    \/ /\ resps[i] # Unused
       /\ price(caches[d[i].stock], date, resps[i]).exc = "none"

\* the sum of price * quantity over the holdings from the i-th on whose
\* resolution succeeds
RECURSIVE SumResolved(_, _, _, _, _)
SumResolved(d, i, date, resps, caches) ==
    IF i > Len(d) THEN 0
    ELSE (IF Resolves(d, i, date, resps, caches)
          THEN price(caches[d[i].stock], date, resps[i]).ret * d[i].quantity
          ELSE 0)
         + SumResolved(d, i + 1, date, resps, caches)

\* C6: get_value never raises, whatever the provider answers for each holding, and
\* returns the sum of price * quantity over exactly the holdings whose resolution
\* succeeded.
C6_ValuationNeverRaises ==
    [][CallStep("get_value")
       => /\ last'.exc = "none"
          /\ last'.ret = SumResolved(stocks, 1, last'.start, last'.resps1, cache)]_vars

\* the key and the cache of a direct Stock.price call
AskedKey == strftime(last'.start)

AskedCache == cache[last'.stock]

\* C7: a price() call for a date string that is in the Stock's cache returns the
\* cached price without a request to the provider and changes nothing; a call for
\* a date string that is not cached makes exactly one request; and a call that
\* succeeds leaves the returned price cached under the requested date string, where
\* no later call of any kind changes it.  So resolving the same date twice makes
\* one request.
C7_CachedNoFetch ==
    [][/\ CallStep("price") /\ AskedKey \in DOMAIN AskedCache
          => /\ last'.exc = "none" /\ last'.ret = AskedCache[AskedKey]
             /\ last'.fetched = 0 /\ cache' = cache
       /\ CallStep("price") /\ AskedKey \notin DOMAIN AskedCache
          => last'.fetched = 1
       /\ CallStep("price") /\ last'.exc = "none"
          => /\ AskedKey \in DOMAIN cache'[last'.stock]
             /\ cache'[last'.stock][AskedKey] = last'.ret
       /\ \A k \in DOMAIN cache["a1"] :
              k \in DOMAIN cache'["a1"] /\ cache'["a1"][k] = cache["a1"][k]]_vars

\* a call has been answered from the cache, which holds two dates
C7_Witness ==
    /\ last.op = "price" /\ last.exc = "none" /\ last.fetched = 0
    /\ last.ret = cache[last.stock][strftime(last.start)]
    /\ Cardinality(DOMAIN cache[last.stock]) = 2

\* C8: no step removes or changes a cache entry of any Stock; add_stock and
\* remove_stock leave every cache as it is; a direct price(D) that succeeds on a
\* cache miss adds exactly the key D to that Stock's cache, also when the close
\* came from an earlier date of the series, and touches no other Stock's cache;
\* a price(D) that fails or is answered from the cache leaves every cache as it is.
C8_CacheImmutable ==
    [][/\ \A s \in StockIds : \A k \in DOMAIN cache[s] :
              k \in DOMAIN cache'[s] /\ cache'[s][k] = cache[s][k]
       /\ CallStep("add_stock") \/ CallStep("remove_stock") => cache' = cache
       /\ CallStep("price") /\ last'.exc = "none" /\ last'.fetched = 1
          => /\ DOMAIN cache'[last'.stock] = DOMAIN AskedCache \cup {AskedKey}
             /\ AskedKey \notin DOMAIN AskedCache
             /\ \A s \in StockIds \ {last'.stock} : cache'[s] = cache[s]
       /\ CallStep("price") /\ (last'.exc # "none" \/ last'.fetched = 0)
          => cache' = cache]_vars

\* a price has been cached under the requested date although the series has no
\* entry for that date, next to an entry cached before
C8_Witness ==
    /\ last.op = "price" /\ last.exc = "none" /\ last.fetched = 1
    /\ strftime(last.start) \notin DOMAIN last.resps1[1].series
    /\ DOMAIN cache[last.stock] = {DayStr(LastDay - 1), DayStr(LastDay)}

\* the series of a price() call that missed the cache; all its entries well-formed
AskedSeries == last'.resps1[1].series

WellFormed(time_series) == \A k \in DOMAIN time_series : time_series[k].kind = "ok"

SeriesStep ==
    /\ CallStep("price") /\ last'.fetched = 1
    /\ last'.resps1[1].kind = "series"

\* the days of the calendar, none after the requested day, that the series has
DaysNotAfter(date, time_series) ==
    {n \in 0..date.day : DayStr(n) \in DOMAIN time_series}

\* the days among them that are at most five days before the requested day
DaysNear(date, time_series) ==
    {n \in DaysNotAfter(date, time_series) : date.day - n <= 5}

\* C9 as stated: if the series has no entry for the requested day nor for any of
\* the five days before it, price() raises ValueError.
C9_SearchBounded ==
    [][SeriesStep /\ WellFormed(AskedSeries)
          /\ DaysNear(last'.start, AskedSeries) = {}
       => last'.exc = "ValueError"]_vars

\* C9 amended: the fallback search has no bound.  With a well-formed series,
\* price(D) on a cache miss raises ValueError exactly when the series has no date
\* on or before D; when it has one, however long before D, the call succeeds.
C9_SearchUnbounded ==
    [][SeriesStep /\ WellFormed(AskedSeries)
       => /\ DaysNotAfter(last'.start, AskedSeries) = {} => last'.exc = "ValueError"
          /\ DaysNotAfter(last'.start, AskedSeries) # {} => last'.exc = "none"]_vars

\* a call has returned a close of more than five days before the requested day
C9_Witness ==
    /\ last.op = "price" /\ last.exc = "none" /\ last.fetched = 1
    /\ last.resps1[1].kind = "series"
    /\ DaysNotAfter(last.start, last.resps1[1].series) # {}
    /\ DaysNear(last.start, last.resps1[1].series) = {}

\* the greatest element of a non-empty set of days
Latest(days) == CHOOSE n \in days : \A m \in days : m <= n

\* C10: a price(D) that succeeds on a cache miss returns the close of the greatest
\* date of the series that is on or before D; when the series has no such date
\* (it is empty or holds only dates after D) the call raises ValueError.
C10_NearestPrior ==
    [][SeriesStep
       => /\ last'.exc = "none"
             => /\ DaysNotAfter(last'.start, AskedSeries) # {}
                /\ last'.ret
                     = AskedSeries[DayStr(Latest(DaysNotAfter(last'.start,
                                                              AskedSeries)))].close
          /\ DaysNotAfter(last'.start, AskedSeries) = {}
             => last'.exc = "ValueError"]_vars

\* a call has returned the close of the later of two earlier dates, the two
\* closes differing
C10_Witness ==
    /\ last.op = "price" /\ last.exc = "none" /\ last.fetched = 1
    /\ last.resps1[1].kind = "series"
    /\ Cardinality(DaysNotAfter(last.start, last.resps1[1].series)) = 2
    /\ DayStr(last.start.day) \notin DOMAIN last.resps1[1].series
    /\ \E k \in DOMAIN last.resps1[1].series :
           last.resps1[1].series[k].close # last.ret

\* a price() call that missed the cache and whose request did not yield a close:
\* the request failed, or the answer is not an object, lacks the series, or the
\* entry chosen from the series has no usable close
ProviderFailed ==
    /\ CallStep("price") /\ last'.fetched = 1
    /\ last'.exc # "none"

\* C11: every failure of the provider on a cache miss makes price() raise
\* ValueError, whatever the kind of failure; no other exception leaves price().
C11_OnlyValueError ==
    [][/\ ProviderFailed => last'.exc = "ValueError"
       /\ CallStep("price") => last'.exc \in {"none", "ValueError"}]_vars

\* C12: profit(d, d) returns 0, whatever the ledger and whatever the provider
\* answers to the requests of its two valuations.
C12_SameDateZero ==
    [][CallStep("profit") /\ last'.start = last'.end
       => last'.exc = "none" /\ last'.ret = 0]_vars

\* C13: when annualized_return accepts its dates (start < end) and gets as far as
\* the number of years, that number is not zero and the division by it succeeds.
C13_YearsNonZero ==
    [][/\ CallStep("annualized_return")
       /\ DatetimeGt(last'.end, last'.start)
       /\ last'.exc \in {"none", "ZeroDivisionError"}
       => last'.days # 0 /\ last'.exc = "none"]_vars

\* the call of this step raised exc before any request to the provider, and left
\* the ledger and every cache as they were
FailedFast(exc) ==
    /\ last'.exc = exc
    /\ last'.fetched = 0
    /\ \A i \in DOMAIN last'.resps1 : last'.resps1[i] = Unused
    /\ \A i \in DOMAIN last'.resps2 : last'.resps2[i] = Unused
    /\ stocks' = stocks
    /\ cache' = cache

\* C14: a call that fails validation raises before any request and changes
\* nothing: add_stock of something that is no Stock (TypeError) or with a quantity
\* that is no positive integer (ValueError), remove_stock of a symbol not held
\* (KeyError), profit with start > end and annualized_return with start >= end,
\* equal dates included (ValueError).
C14_FailFast ==
    [][/\ CallStep("add_stock") /\ last'.stock \notin StockIds
          => FailedFast("TypeError")
       /\ CallStep("add_stock") /\ last'.stock \in StockIds
             /\ (~last'.is_int \/ last'.quantity <= 0)
          => FailedFast("ValueError")
       /\ CallStep("remove_stock") /\ last'.symbol \notin Keys(stocks)
          => FailedFast("KeyError")
       /\ CallStep("profit") /\ DatetimeGt(last'.start, last'.end)
          => FailedFast("ValueError")
       /\ CallStep("annualized_return") /\ ~DatetimeGt(last'.end, last'.start)
          => FailedFast("ValueError")]_vars

\* annualized_return has refused equal dates on a ledger of two holdings, one of
\* them with nothing cached and one with a cached price
C14_Witness ==
    /\ last.op = "annualized_return" /\ last.start = last.end
    /\ last.exc = "ValueError" /\ last.fetched = 0
    /\ Len(stocks) = 2
    /\ cache[stocks[1].stock] # NoSeries
    /\ cache[stocks[2].stock] = NoSeries

\* the outcome of the profit call of this step is that of subtracting the start
\* valuation s from the end valuation e
ProfitIsDifference(s, e) ==
    IF e.exc # "none" THEN last'.exc = e.exc
    ELSE /\ last'.exc = "none"
         /\ last'.ret = e.ret - s.ret
         /\ last'.start_value = s.ret /\ last'.end_value = e.ret
         /\ last'.fetched = s.fetched + e.fetched
         /\ cache' = e.cache

\* the end valuation is made after the start valuation s, on the ledger and with
\* the caches that s left; an exception of a valuation leaves profit
ProfitIsValued(s) ==
    IF s.exc # "none" THEN last'.exc = s.exc
    ELSE \A e \in {get_value(stocks, last'.end, last'.resps2, s.cache)} :
             ProfitIsDifference(s, e)

\* C15: profit raises ValueError for the date range exactly when start > end;
\* otherwise it values the ledger at start, then at end, the ledger being the
\* same and unchanged, and returns the end valuation minus the start valuation.
C15_ProfitDifference ==
    [][CallStep("profit")
       => /\ last'.exc = "ValueError" <=> DatetimeGt(last'.start, last'.end)
          /\ stocks' = stocks
          /\ ~DatetimeGt(last'.start, last'.end)
             => \A s \in {get_value(stocks, last'.start, last'.resps1, cache)} :
                    ProfitIsValued(s)]_vars

\* three shares valued at 150 each at start and at 160 each at end: profit 30
C15_Witness ==
    /\ last.op = "profit" /\ last.exc = "none"
    /\ Len(stocks) = 1 /\ stocks[1].quantity = 3
    /\ last.start_value = 450 /\ last.end_value = 480
    /\ last.ret = 30

\* the places of the requests that a call made
Requested(resps) == {i \in DOMAIN resps : resps[i] # Unused}

\* C16: annualized_return with start < end whose start valuation is 0 (an empty
\* ledger, or every resolution at the start date failed) raises ValueError, and
\* raises it before the end valuation: no request for the end date is made and no
\* cache gets an entry.
C16_ZeroStartRaises ==
    [][CallStep("annualized_return") /\ DatetimeGt(last'.end, last'.start)
       => \A s \in {get_value(stocks, last'.start, last'.resps1, cache)} :
              s.exc = "none" /\ s.ret = 0
              => /\ last'.exc = "ValueError"
                 /\ Requested(last'.resps2) = {}
                 /\ last'.fetched = s.fetched
                 /\ cache' = cache]_vars

\* annualized_return has raised ValueError after the resolutions of both holdings
\* failed at the start date
C16_Witness ==
    /\ last.op = "annualized_return" /\ DatetimeGt(last.end, last.start)
    /\ last.exc = "ValueError"
    /\ Len(stocks) = 2 /\ last.fetched = 2
    /\ Requested(last.resps1) = {1, 2} /\ Requested(last.resps2) = {}

\* the request of the i-th holding in the get_value call of this step failed
RequestFailed(i) ==
    /\ i \in Requested(last'.resps1)
    /\ price(cache[stocks[i].stock], last'.start, last'.resps1[i]).exc # "none"

\* C17: get_value makes at most one request for each holding, a failed one
\* included; a request that failed stores nothing under the date, and a get_value
\* that runs to its end makes a request for every holding that has no price cached
\* for the date: so a later call for the same date asks again for a symbol whose
\* request failed.  A holding whose request failed adds nothing to the total.
C17_NoRetryNoFailureCache ==
    [][CallStep("get_value")
       => /\ last'.fetched = Cardinality(Requested(last'.resps1))
          /\ last'.fetched <= Len(stocks)
          /\ \A i \in 1..Len(stocks) :
                 RequestFailed(i)
                 => /\ strftime(last'.start) \notin DOMAIN cache'[stocks[i].stock]
                    /\ ~Resolves(stocks, i, last'.start, last'.resps1, cache)
          /\ last'.exc = "none"
             => /\ Requested(last'.resps1)
                      = {i \in 1..Len(stocks) :
                            strftime(last'.start) \notin DOMAIN cache[stocks[i].stock]}
                /\ last'.ret
                      = SumResolved(stocks, 1, last'.start, last'.resps1, cache)]_vars

\* a get_value has made two requests, the first failed and the second gave a
\* price: the total is that of the second holding and the first Stock has no price
\* cached for the date
C17_Witness ==
    /\ last.op = "get_value" /\ last.exc = "none"
    /\ Len(stocks) = 2 /\ last.fetched = 2
    /\ last.resps1[1] = NetworkError /\ last.resps1[2] = GoodSeries
    /\ last.ret = 150 * stocks[2].quantity
    /\ strftime(last.start) \notin DOMAIN cache[stocks[1].stock]
    /\ strftime(last.start) \in DOMAIN cache[stocks[2].stock]

\* the value of the holdings from the i-th on at the prices cached under key
RECURSIVE CachedValue(_, _, _, _)
CachedValue(d, i, key, caches) ==
    IF i > Len(d) THEN 0
    ELSE caches[d[i].stock][key] * d[i].quantity
         + CachedValue(d, i + 1, key, caches)

\* C18: an add_stock of a Stock whose symbol is held keeps the Stock object stored
\* first, at its place, and only adds to its quantity; the Stock object given is
\* not stored and no cache changes.  A valuation reads the caches of the Stock
\* objects stored: when each has a price for the date it makes no request and
\* returns the total at those prices.
C18_FirstObjectKept ==
    [][/\ CallStep("add_stock") /\ last'.exc = "none"
             /\ SymbolOf(last'.stock) \in Keys(stocks)
          => /\ Len(stocks') = Len(stocks)
             /\ \A i \in 1..Len(stocks) :
                    /\ stocks'[i].symbol = stocks[i].symbol
                    /\ stocks'[i].stock = stocks[i].stock
                    /\ stocks'[i].quantity
                         = IF stocks[i].symbol = SymbolOf(last'.stock)
                           THEN stocks[i].quantity + last'.quantity
                           ELSE stocks[i].quantity
             /\ cache' = cache
       /\ CallStep("get_value")
             /\ (\A i \in 1..Len(stocks) :
                     strftime(last'.start) \in DOMAIN cache[stocks[i].stock])
          => /\ last'.exc = "none" /\ last'.fetched = 0
             /\ last'.ret = CachedValue(stocks, 1, strftime(last'.start), cache)]_vars

\* a second Stock object of a held symbol has been added: the entry still holds
\* the first object, which has a cached price, and the object given has none
C18_Witness ==
    /\ last.op = "add_stock" /\ last.exc = "none" /\ last.stock = "a2"
    /\ Len(stocks) = 1 /\ stocks[1].stock = "a1" /\ stocks[1].quantity = 3
    /\ cache["a1"] # NoSeries /\ cache["a2"] = NoSeries

====
